---- MODULE Spec2Model ----
(***************************************************************************)
(* A model of the AxonPuls python client (apix_client/client.py): the      *)
(* CircuitBreaker dataclass and the AxonPulsClient session with its        *)
(* asyncio tasks (read loop _message_handler, liveness monitor             *)
(* _heartbeat_loop, reconnection orchestrator _reconnect) and the          *)
(* coroutines a caller awaits (connect, disconnect, subscribe,             *)
(* unsubscribe).                                                           *)
(*                                                                         *)
(* asyncio is cooperative: a coroutine runs without interruption from one  *)
(* await to the next.  Every action below is one such block: it starts     *)
(* where a task was suspended (pc) and runs to the next await, or to the   *)
(* end of the task.  The transport (websockets) is the environment: an     *)
(* open or a send succeeds or fails, a read loop ends in one of the three  *)
(* ways the code distinguishes, a pong arrives or does not.                *)
(***************************************************************************)
EXTENDS Integers, Sequences, FiniteSets, TLC

\* ---------------------------------------------------------------- bounds
MaxConns == 2          \* connections the transport lets be opened in a run
MaxCalls == 3          \* calls the caller makes on the client in a run
MaxTime == 80          \* the clock stops here (seconds)
MaxAttemptsCfg == 2    \* largest explicitly configured reconnect_attempts
CBMaxTime == 62        \* the clock of the breaker's driver stops here
CBMaxFailures == 6     \* the driver stops recording failures at this count
SubMaxCalls == 4       \* calls of the caller in the subscription runs
RaceMaxCalls == 2      \* calls of each of two concurrent callers
MaxBackoffAttempt == 8 \* largest reconnect_attempt a backoff delay is computed for

\* A run is explored within one of these budgets: many calls on one
\* connection with the clock running, or fewer calls with a reconnection.
Budgets ==
    { [calls |-> MaxCalls, conns |-> 1, time |-> MaxTime],
      [calls |-> MaxCalls - 1, conns |-> MaxConns, time |-> 0],
      [calls |-> 1, conns |-> MaxConns, time |-> MaxTime] }

\* ------------------------------------------------- constants of the code
MAX_CHANNELS == 200
BACKOFF_BASE_MS == 250
BACKOFF_FACTOR == 2
BACKOFF_MAX_MS == 30000
BACKOFF_JITTER_TENTHS == 2   \* BACKOFF_JITTER = 0.2
HEARTBEAT_INTERVAL == 30
FAILURE_THRESHOLD == 5
TIMEOUT_SECONDS == 60
DEFAULT_RECONNECT_ATTEMPTS == 5

\* An Optional[...] value: <<>> is None, <<v>> is the value v.
None == <<>>

\* Python truthiness of an Optional[int]: None and 0 are falsy.
Truthy(opt) == opt # None /\ opt[1] # 0

\* `opt or d`
OrDefault(opt, d) == IF Truthy(opt) THEN opt[1] ELSE d

\* ----------------------------------------------------------- channels
\* A channel name "org:<org>:<name>" is the sequence of its ':'-separated
\* parts.  The session's tenant is OrgId.
OrgId == "acme"

Chan(n) == <<"org", OrgId, n>>

ForeignChan(n) == <<"org", "other", n>>

\* the channels c_a .. c_b as a list
Block(a, b) == [i \in 1..(b - a + 1) |-> Chan(a + i - 1)]

\* every channel the model uses, in a fixed order
ChannelOrder == Block(1, MAX_CHANNELS + 1) \o <<ForeignChan(1)>>

\* list(a_set): the members of the set as a list, each once
ListOf(S) == SelectSeq(ChannelOrder, LAMBDA c : c \in S)

\* set(a_list)
SetOf(list) == {list[i] : i \in 1..Len(list)}

\* channel.startswith(f"org:{self.org_id}:")
HasTenantPrefix(channel) ==
    /\ Len(channel) > 2
    /\ SubSeq(channel, 1, 2) = <<"org", OrgId>>

\* a validation that looks at the first channel only
AllValid_first_only(channels) == Len(channels) = 0 \/ HasTenantPrefix(channels[1])

\* _validate_channel raises for the first channel without the prefix
AllValid(channels) == \A i \in 1..Len(channels) : HasTenantPrefix(channels[i])

\* ---------------------------------------------------- the circuit breaker
CircuitBreakerInit ==
    [ failure_threshold |-> FAILURE_THRESHOLD,
      timeout_seconds   |-> TIMEOUT_SECONDS,
      failure_count     |-> 0,
      state             |-> "closed",
      last_failure_time |-> None ]

record_success(cb) ==
    [cb EXCEPT !.failure_count = 0,
               !.state = IF cb.state = "half_open" THEN "closed" ELSE @]

\* record_failure tripping one failure late (> for >=)
record_failure_late(cb, t) ==
    LET count == cb.failure_count + 1
    IN  [cb EXCEPT !.failure_count = count,
                   !.last_failure_time = <<t>>,
                   !.state = IF count > cb.failure_threshold THEN "open" ELSE @]

record_failure(cb, t) ==
    LET count == cb.failure_count + 1
    IN  [cb EXCEPT !.failure_count = count,
                   !.last_failure_time = <<t>>,
                   !.state = IF count >= cb.failure_threshold THEN "open" ELSE @]

\* can_attempt returns a bool and may move the breaker OPEN -> HALF_OPEN
can_attempt(cb, t) ==
    IF cb.state = "closed"
    THEN [result |-> TRUE, cb |-> cb]
    ELSE IF cb.state = "open"
    THEN IF cb.last_failure_time # None
            /\ t - cb.last_failure_time[1] > cb.timeout_seconds
         THEN [result |-> TRUE, cb |-> [cb EXCEPT !.state = "half_open"]]
         ELSE [result |-> FALSE, cb |-> cb]
    ELSE [result |-> TRUE, cb |-> cb]


\* ------------------------------------------------------------ the tasks
\* The caller's coroutines, and the tasks the client creates: connection c
\* has its read loop <<"M", c>> and its liveness monitor <<"H", c>>; a
\* read loop or a monitor creates at most one orchestrator, <<"RM", c>> or
\* <<"RH", c>>.
ConnIds == 1..MaxConns

\* the coroutines of the application that call the client, and the one
\* that makes the calls where a single caller is enough
Callers == {<<"U", 1>>, <<"U", 2>>}

MainCaller == {<<"U", 1>>}

ReadLoops == {<<"M", c>> : c \in ConnIds}

Monitors == {<<"H", c>> : c \in ConnIds}

Orchestrators == {<<k, c>> : k \in {"RM", "RH"}, c \in ConnIds}

Tasks == Callers \cup ReadLoops \cup Monitors \cup Orchestrators

NoTask == <<>>

Kind(t) == t[1]

Terminal(p) == p \in {"done", "exhausted", "cancelled"}

VARIABLES
    budget,      \* the budget of the run (never changes)
    config,      \* AxonPulsClientConfig
    client,      \* the AxonPulsClient instance's attributes
    now,         \* datetime.now(), in seconds
    conn,        \* the transport's connections: "unused", "open", "closed"
    pc,          \* where each task is suspended
    cancel_req,  \* Task.cancel() was called and is not yet delivered
    awaiting,    \* the task a disconnect() is awaiting
    tconn,       \* the connection a pending send or close acts on
    chans,       \* the channel list of a pending subscribe or unsubscribe
    op,          \* the caller's last call
    result,      \* and how it ended: "pending", "ok" or the error raised
    calls,       \* calls made so far, per caller
    sent,        \* per connection, the subscribe/unsubscribe requests sent
    torn,        \* the caller's disconnect() returned, no connect() since
    run,         \* per orchestrator run: what it did so far
    backoff,     \* the event loop's clock and the backoff delay computed last
    pinged       \* per connection: a ping of a monitor went out on it

vars == <<budget, config, client, now, conn, pc, cancel_req, awaiting, tconn, chans,
          op, result, calls, sent, torn, run, backoff,
          pinged>>

\* max_retries = self.config.reconnect_attempts or 5
MaxRetries == OrDefault(config.reconnect_attempts, DEFAULT_RECONNECT_ATTEMPTS)

\* self.config.heartbeat_interval or self.HEARTBEAT_INTERVAL
Interval == OrDefault(config.heartbeat_interval, HEARTBEAT_INTERVAL)

\* connect()'s test before it starts the monitor
HeartbeatEnabled == Truthy(config.heartbeat_interval) /\ config.heartbeat_interval[1] > 0

NumOpened == Cardinality({c \in ConnIds : conn[c] # "unused"})

Configs ==
    [ auto_reconnect     : BOOLEAN,
      heartbeat_interval : {None, <<HEARTBEAT_INTERVAL>>},
      reconnect_attempts : {None} \cup {<<n>> : n \in 1..MaxAttemptsCfg} ]

\* the fraction of a second of the event loop's clock (ms), whether a
\* backoff delay was computed, for which attempt, and the delay
BackoffInit == [loop_ms |-> 0, computed |-> FALSE, attempt |-> 0, delay |-> 0]

ClientInit ==
    [ websocket        |-> None,
      http_session     |-> FALSE,
      subscriptions    |-> {},
      connection_state |-> "disconnected",
      heartbeat_task   |-> NoTask,
      reconnect_task   |-> NoTask,
      circuit_breaker  |-> CircuitBreakerInit,
      reconnect_attempt |-> 0,
      last_pong_time   |-> 0,
      last_stream_ids  |-> {} ]

\* What an orchestrator run did so far: the connect() calls it made, the
\* opens that failed on it, the attempt on which an open succeeded and the
\* connection that gave; and what held when the run was created: the
\* SubscriptionSet, the connections opened so far, the caller's calls so far.
RunInit ==
    [ attempts |-> 0, open_failures |-> 0, reconnect_on |-> 0, opened |-> 0,
      subs0 |-> {}, conns0 |-> 0, calls0 |-> 0 ]

\* the default of reconnect_attempts is explored on one connection
Runs ==
    { bc \in Budgets \X Configs :
        bc[2].reconnect_attempts = None => bc[1].conns = 1 }

Init ==
    /\ \E bc \in Runs : budget = bc[1] /\ config = bc[2]
    /\ client = ClientInit
    /\ now = 0
    /\ conn = [c \in ConnIds |-> "unused"]
    /\ pc = [t \in Tasks |-> IF t \in Callers THEN "idle" ELSE "none"]
    /\ cancel_req = [t \in Tasks |-> FALSE]
    /\ awaiting = [t \in Tasks |-> NoTask]
    /\ tconn = [t \in Tasks |-> 0]
    /\ chans = [t \in Tasks |-> <<>>]
    /\ op = [u \in Callers |-> "none"]
    /\ result = [u \in Callers |-> "none"]
    /\ calls = [u \in Callers |-> 0]
    /\ sent = [c \in ConnIds |-> <<>>]
    /\ torn = FALSE
    /\ run = [r \in Orchestrators |-> RunInit]
    /\ pinged = [c \in ConnIds |-> FALSE]
    /\ backoff = BackoffInit


\* --------------------------------------------------- Task.cancel()
\* cancel() on a task that is awaiting another task cancels that one (the
\* awaiter then sees the CancelledError when the awaited task ends);
\* otherwise the CancelledError is thrown into the task where it is
\* suspended, the next time it runs.  cancel() on a finished task does
\* nothing.
RECURSIVE CancelTarget(_)
CancelTarget(x) ==
    IF /\ pc[x] \in {"disc_hb", "disc_rc"}
       /\ awaiting[x] # x
       /\ ~Terminal(pc[awaiting[x]])
    THEN CancelTarget(awaiting[x])
    ELSE x

Cancel(creq, x) ==
    IF Terminal(pc[x]) THEN creq ELSE [creq EXCEPT ![CancelTarget(x)] = TRUE]

\* -------------------------------------------- the client's coroutines
\* connect() up to its await of websockets.connect: a no-op, a denial by
\* the breaker, or an open in flight.
ConnectEntry(cl) ==
    IF cl.connection_state \in {"connected", "connecting"}
    THEN [outcome |-> "noop", cl |-> cl]
    ELSE LET ca == can_attempt(cl.circuit_breaker, now)
         IN  IF ~ca.result
             THEN [outcome |-> "denied",
                   cl |-> [cl EXCEPT !.circuit_breaker = ca.cb]]
             ELSE [outcome |-> "opening",
                   cl |-> [cl EXCEPT !.circuit_breaker = ca.cb,
                                     !.connection_state = "connecting",
                                     !.http_session = TRUE]]

\* the error connect() raises when the breaker denies the attempt
CircuitDeniedError == "AxonPulsConnectionError"

\* connect() after websockets.connect returned connection c
ConnectSucceeded(cl, c) ==
    [cl EXCEPT !.websocket = <<c>>,
               !.connection_state = "connected",
               !.circuit_breaker = record_success(@),
               !.reconnect_attempt = 0,
               !.heartbeat_task = IF HeartbeatEnabled THEN <<"H", c>> ELSE @]

\* the tasks connect() creates for connection c
ConnectTasks(pcf, c) ==
    [pcf EXCEPT ![<<"M", c>>] = "reading",
                ![<<"H", c>>] = IF HeartbeatEnabled THEN "h_start" ELSE @]

\* connect() after websockets.connect raised
ConnectFailed(cl) ==
    [cl EXCEPT !.connection_state = "disconnected",
               !.circuit_breaker = record_failure(@, now)]

\* _send_message up to its await of websocket.send
SendEntry(cl) ==
    IF cl.websocket = None \/ cl.connection_state # "connected"
    THEN "AxonPulsConnectionError"
    ELSE "send"

\* _send_message after websocket.send raised
SendFailed(cl) == [cl EXCEPT !.circuit_breaker = record_failure(@, now)]

\* subscribe() letting one channel more through than MAX_CHANNELS
SubscribeEntry_one_more(cl, channels) ==
    IF cl.connection_state # "connected"
    THEN "AxonPulsConnectionError"
    ELSE IF Len(channels) + Cardinality(cl.subscriptions) > MAX_CHANNELS + 1
    THEN "AxonPulsValidationError"
    ELSE IF ~AllValid(channels)
    THEN "AxonPulsTenantIsolationError"
    ELSE SendEntry(cl)

\* subscribe(channels) up to the await of the send: "send", or the error
SubscribeEntry(cl, channels) ==
    IF cl.connection_state # "connected"
    THEN "AxonPulsConnectionError"
    ELSE IF Len(channels) + Cardinality(cl.subscriptions) > MAX_CHANNELS
    THEN "AxonPulsValidationError"
    ELSE IF ~AllValid(channels)
    THEN "AxonPulsTenantIsolationError"
    ELSE SendEntry(cl)

\* subscribe() recording only the first channel of the list
SubscribeDone_first_only(cl, channels) ==
    [cl EXCEPT !.subscriptions = @ \cup {channels[1]}]

\* subscribe(channels) after the send returned
SubscribeDone(cl, channels) ==
    [cl EXCEPT !.subscriptions = @ \cup SetOf(channels)]

\* unsubscribe(channels) up to the await of the send
UnsubscribeEntry(cl, channels) ==
    IF cl.connection_state # "connected"
    THEN "AxonPulsConnectionError"
    ELSE IF ~AllValid(channels)
    THEN "AxonPulsTenantIsolationError"
    ELSE SendEntry(cl)

\* unsubscribe(channels) after the send returned
UnsubscribeDone(cl, channels) ==
    [cl EXCEPT !.subscriptions = @ \ SetOf(channels)]

\* _reconnect at the top of its while loop: sleep for the backoff delay,
\* or fall out of the loop
ReconnectLoop(cl) ==
    IF cl.reconnect_attempt < MaxRetries THEN "r_sleep" ELSE "exhausted"

\* _reconnect after its connect() returned: re-subscribe, up to the await
\* of the send.  An error raised on the way is caught by the loop.
Resubscribe(cl) ==
    IF cl.subscriptions = {}
    THEN [pc |-> "done", chans |-> <<>>, tconn |-> 0]
    ELSE LET channels == ListOf(cl.subscriptions)
         IN  IF SubscribeEntry(cl, channels) = "send"
             THEN [pc |-> "sub_send", chans |-> channels, tconn |-> cl.websocket[1]]
             ELSE [pc |-> ReconnectLoop(cl), chans |-> <<>>, tconn |-> 0]

\* what _reconnect surfaces once its loop is exhausted: it writes a log
\* line; it calls no handler, emits no event and raises nothing
ExhaustedSignals == {}

\* asyncio.create_task(self._reconnect()) by read loop or monitor of c
SpawnReconnect(cl, r) == [cl EXCEPT !.reconnect_task = r]

RunStart(cl) ==
    [RunInit EXCEPT !.subs0 = cl.subscriptions,
                    !.conns0 = NumOpened,
                    !.calls0 = calls[<<"U", 1>>]]

\* the orchestrator a task creates
ReconnectOf(t) == <<IF Kind(t) = "M" THEN "RM" ELSE "RH", t[2]>>

\* disconnect(), run by task t (a caller, or a monitor that declared the
\* connection dead) from `stage` to its next await or to its return.  cl is
\* the client and creq the cancel requests as the code before left them.
DisconnectFrom(t, stage, cl, creq) ==
    LET hb == cl.heartbeat_task
        rc == cl.reconnect_task
        waitHb == stage = "hb" /\ hb # NoTask /\ ~Terminal(pc[hb])
        waitRc == /\ ~waitHb
                  /\ stage \in {"hb", "rc"}
                  /\ rc # NoTask
                  /\ ~Terminal(pc[rc])
        closeWs == /\ ~waitHb
                   /\ ~waitRc
                   /\ stage \in {"hb", "rc", "ws"}
                   /\ cl.websocket # None
        closeHttp == ~waitHb /\ ~waitRc /\ ~closeWs /\ cl.http_session
        r == ReconnectOf(t)
    IN  CASE waitHb ->
               /\ client' = cl
               /\ pc' = [pc EXCEPT ![t] = "disc_hb"]
               /\ cancel_req' = Cancel(creq, hb)
               /\ awaiting' = [awaiting EXCEPT ![t] = hb]
               /\ UNCHANGED <<tconn, conn, run>>
          [] waitRc ->
               /\ client' = cl
               /\ pc' = [pc EXCEPT ![t] = "disc_rc"]
               /\ cancel_req' = Cancel(creq, rc)
               /\ awaiting' = [awaiting EXCEPT ![t] = rc]
               /\ UNCHANGED <<tconn, conn, run>>
          [] closeWs ->
               /\ client' = cl
               /\ pc' = [pc EXCEPT ![t] = "disc_ws"]
               /\ cancel_req' = creq
               /\ awaiting' = [awaiting EXCEPT ![t] = NoTask]
               /\ tconn' = [tconn EXCEPT ![t] = cl.websocket[1]]
               /\ conn' = [conn EXCEPT ![cl.websocket[1]] = "closed"]
               /\ UNCHANGED run
          [] closeHttp ->
               /\ client' = cl
               /\ pc' = [pc EXCEPT ![t] = "disc_http"]
               /\ cancel_req' = creq
               /\ awaiting' = [awaiting EXCEPT ![t] = NoTask]
               /\ tconn' = [tconn EXCEPT ![t] = 0]
               /\ UNCHANGED <<conn, run>>
          [] OTHER ->
               /\ cancel_req' = creq
               /\ awaiting' = [awaiting EXCEPT ![t] = NoTask]
               /\ tconn' = [tconn EXCEPT ![t] = 0]
               /\ UNCHANGED conn
               /\ IF t \in Callers
                  THEN /\ client' = cl
                       /\ pc' = [pc EXCEPT ![t] = "idle"]
                       /\ UNCHANGED run
                  ELSE \* the monitor: hand over to the orchestrator, return
                       IF config.auto_reconnect
                       THEN /\ client' = SpawnReconnect(cl, r)
                            /\ pc' = [pc EXCEPT ![t] = "done", ![r] = "r_start"]
                            /\ run' = [run EXCEPT ![r] = RunStart(cl)]
                       ELSE /\ client' = cl
                            /\ pc' = [pc EXCEPT ![t] = "done"]
                            /\ UNCHANGED run

\* what the caller sees of a disconnect() that task t runs: pending while
\* it is suspended, returned without an error once it is through
DisconnectResult(t) ==
    /\ result' = IF t \in Callers
                 THEN [result EXCEPT ![t] = IF pc'[t] = "idle" THEN "ok" ELSE "pending"]
                 ELSE result
    /\ torn' = IF t \in Callers /\ pc'[t] = "idle" THEN TRUE ELSE torn


\* ------------------------------------------------- the caller's calls
\* the channel lists the caller passes to subscribe and unsubscribe
SubscribeInputs ==
    { <<Chan(1)>>,
      Block(1, MAX_CHANNELS \div 2 + 1) }

UnsubscribeInputs == { <<Chan(1)>> }

CallsMade == calls[<<"U", 1>>]

Call(u, name) ==
    /\ pc[u] = "idle"
    /\ calls[u] < budget.calls
    /\ op' = [op EXCEPT ![u] = name]
    /\ calls' = [calls EXCEPT ![u] = @ + 1]

\* await client.connect()
CallConnect(u) ==
    /\ Call(u, "connect")
    /\ LET e == ConnectEntry(client)
       IN  /\ client' = e.cl
           /\ pc' = [pc EXCEPT ![u] =
                        IF e.outcome = "opening" THEN "connect_open" ELSE "idle"]
           /\ result' = [result EXCEPT ![u] =
                            CASE e.outcome = "opening" -> "pending"
                              [] e.outcome = "noop" -> "ok"
                              [] OTHER -> CircuitDeniedError]
    /\ torn' = FALSE
    /\ UNCHANGED <<budget, backoff, pinged, config, now, conn, cancel_req, awaiting, tconn, chans, sent, run>>

\* await client.disconnect()
CallDisconnect(u) ==
    /\ Call(u, "disconnect")
    /\ DisconnectFrom(u, "hb",
                      [client EXCEPT !.connection_state = "disconnected"],
                      cancel_req)
    /\ DisconnectResult(u)
    /\ UNCHANGED <<budget, backoff, pinged, config, now, chans, sent>>


\* await client.subscribe(channels)
CallSubscribe(u, channels) ==
    /\ Call(u, "subscribe")
    /\ LET e == SubscribeEntry(client, channels)
       IN  IF e = "send"
           THEN /\ pc' = [pc EXCEPT ![u] = "sub_send"]
                /\ chans' = [chans EXCEPT ![u] = channels]
                /\ tconn' = [tconn EXCEPT ![u] = client.websocket[1]]
                /\ result' = [result EXCEPT ![u] = "pending"]
           ELSE /\ result' = [result EXCEPT ![u] = e]
                /\ UNCHANGED <<pc, chans, tconn>>
    /\ UNCHANGED <<budget, backoff, pinged, config, client, now, conn, cancel_req, awaiting, sent, torn, run>>

\* await client.unsubscribe(channels)
CallUnsubscribe(u, channels) ==
    /\ Call(u, "unsubscribe")
    /\ LET e == UnsubscribeEntry(client, channels)
       IN  IF e = "send"
           THEN /\ pc' = [pc EXCEPT ![u] = "unsub_send"]
                /\ chans' = [chans EXCEPT ![u] = channels]
                /\ tconn' = [tconn EXCEPT ![u] = client.websocket[1]]
                /\ result' = [result EXCEPT ![u] = "pending"]
           ELSE /\ result' = [result EXCEPT ![u] = e]
                /\ UNCHANGED <<pc, chans, tconn>>
    /\ UNCHANGED <<budget, backoff, pinged, config, client, now, conn, cancel_req, awaiting, sent, torn, run>>

\* ------------------------------------------ awaits that come back
\* websockets.connect returned a connection to task t (a caller's connect(),
\* or the orchestrator's)
OpenOk(t) ==
    /\ pc[t] = "connect_open"
    /\ ~cancel_req[t]
    /\ NumOpened < budget.conns
    /\ LET c == NumOpened + 1
           cl == ConnectSucceeded(client, c)
           nx == Resubscribe(cl)
       IN  /\ client' = cl
           /\ conn' = [conn EXCEPT ![c] = "open"]
           /\ IF t \in Callers
              THEN /\ pc' = [ConnectTasks(pc, c) EXCEPT ![t] = "idle"]
                   /\ result' = [result EXCEPT ![t] = "ok"]
                   /\ UNCHANGED <<chans, tconn, run>>
              ELSE /\ pc' = [ConnectTasks(pc, c) EXCEPT ![t] = nx.pc]
                   /\ chans' = [chans EXCEPT ![t] = nx.chans]
                   /\ tconn' = [tconn EXCEPT ![t] = nx.tconn]
                   /\ run' = [run EXCEPT ![t].opened = c,
                                         ![t].reconnect_on = run[t].attempts]
                   /\ UNCHANGED result
    /\ UNCHANGED <<budget, backoff, pinged, config, now, cancel_req, awaiting, op, calls, sent, torn>>

\* websockets.connect raised
OpenFail(t) ==
    /\ pc[t] = "connect_open"
    /\ ~cancel_req[t]
    /\ LET cl == ConnectFailed(client)
       IN  /\ client' = cl
           /\ IF t \in Callers
              THEN /\ pc' = [pc EXCEPT ![t] = "idle"]
                   /\ result' = [result EXCEPT ![t] = "AxonPulsConnectionError"]
                   /\ UNCHANGED run
              ELSE /\ pc' = [pc EXCEPT ![t] = ReconnectLoop(cl)]
                   /\ run' = [run EXCEPT ![t].open_failures = @ + 1]
                   /\ UNCHANGED result
    /\ UNCHANGED <<budget, backoff, pinged, config, now, conn, cancel_req, awaiting, tconn, chans, op, calls,
                   sent, torn>>

\* The message subscribe() or unsubscribe() builds, as far as the model
\* goes: its type, its channels and the positions it asks a replay from.
\* Every subscribe() of the model is called without options, the
\* orchestrator's too, so `options` is {} and no position is carried.
Request(type, channels) ==
    [type |-> type, channels |-> channels, replay_from |-> {}]

\* websocket.send returned: the request of task t is on the wire
SendOk(t) ==
    /\ pc[t] \in {"sub_send", "unsub_send", "h_ping"}
    /\ ~cancel_req[t]
    /\ conn[tconn[t]] = "open"
    /\ client' = CASE pc[t] = "sub_send" -> SubscribeDone(client, chans[t])
                   [] pc[t] = "unsub_send" -> UnsubscribeDone(client, chans[t])
                   [] OTHER -> client
    /\ sent' = IF pc[t] = "h_ping"
               THEN sent
               ELSE [sent EXCEPT ![tconn[t]] =
                        Append(@, Request(IF pc[t] = "sub_send"
                                          THEN "subscribe" ELSE "unsubscribe",
                                          chans[t]))]
    /\ pc' = [pc EXCEPT ![t] =
                 CASE t \in Callers -> "idle"
                   [] t \in Orchestrators -> "done"
                   [] OTHER -> IF client.connection_state = "connected"
                               THEN "h_sleep" ELSE "done"]
    /\ result' = IF t \in Callers THEN [result EXCEPT ![t] = "ok"] ELSE result
    /\ chans' = [chans EXCEPT ![t] = <<>>]
    /\ tconn' = [tconn EXCEPT ![t] = 0]
    /\ pinged' = IF pc[t] = "h_ping" THEN [pinged EXCEPT ![tconn[t]] = TRUE] ELSE pinged
    /\ UNCHANGED <<budget, backoff, config, now, conn, cancel_req, awaiting, op, calls, torn, run>>

\* websocket.send raised
SendFail(t) ==
    /\ pc[t] \in {"sub_send", "unsub_send", "h_ping"}
    /\ ~cancel_req[t]
    /\ LET cl == SendFailed(client)
       IN  /\ client' = cl
           /\ pc' = [pc EXCEPT ![t] =
                        CASE t \in Callers -> "idle"
                          [] t \in Orchestrators -> ReconnectLoop(cl)
                          [] OTHER -> "done"]
    /\ result' = IF t \in Callers
                 THEN [result EXCEPT ![t] = "AxonPulsConnectionError"]
                 ELSE result
    /\ chans' = [chans EXCEPT ![t] = <<>>]
    /\ tconn' = [tconn EXCEPT ![t] = 0]
    /\ UNCHANGED <<budget, backoff, pinged, config, now, conn, cancel_req, awaiting, op, calls, sent, torn, run>>

\* disconnect()'s await of the monitor or orchestrator task it cancelled
\* comes back: the task ended, or the awaiter is that task itself and the
\* CancelledError it asked for is thrown into it.  Either way the
\* `except asyncio.CancelledError: pass` lets disconnect() go on.
DiscAwaitDone(t) ==
    /\ pc[t] \in {"disc_hb", "disc_rc"}
    /\ IF awaiting[t] = t THEN cancel_req[t] ELSE Terminal(pc[awaiting[t]])
    /\ DisconnectFrom(t, IF pc[t] = "disc_hb" THEN "rc" ELSE "ws", client,
                      [cancel_req EXCEPT ![t] = FALSE])
    /\ DisconnectResult(t)
    /\ UNCHANGED <<budget, backoff, pinged, config, now, chans, op, calls, sent>>

\* await self.websocket.close() comes back; self.websocket = None
DiscWsDone(t) ==
    /\ pc[t] = "disc_ws"
    /\ ~cancel_req[t]
    /\ DisconnectFrom(t, "http", [client EXCEPT !.websocket = None], cancel_req)
    /\ DisconnectResult(t)
    /\ UNCHANGED <<budget, backoff, pinged, config, now, chans, op, calls, sent>>

\* await self.http_session.close() comes back; self.http_session = None
DiscHttpDone(t) ==
    /\ pc[t] = "disc_http"
    /\ ~cancel_req[t]
    /\ DisconnectFrom(t, "end", [client EXCEPT !.http_session = FALSE], cancel_req)
    /\ DisconnectResult(t)
    /\ UNCHANGED <<budget, backoff, pinged, config, now, chans, op, calls, sent>>

\* the CancelledError reaches a task suspended anywhere else: nothing there
\* catches it (it is no Exception), the task ends cancelled
Cancelled(t) ==
    /\ cancel_req[t]
    /\ pc[t] \notin {"disc_hb", "disc_rc", "none"}
    /\ ~Terminal(pc[t])
    /\ pc' = [pc EXCEPT ![t] = "cancelled"]
    /\ cancel_req' = [cancel_req EXCEPT ![t] = FALSE]
    /\ awaiting' = [awaiting EXCEPT ![t] = NoTask]
    /\ tconn' = [tconn EXCEPT ![t] = 0]
    /\ chans' = [chans EXCEPT ![t] = <<>>]
    /\ UNCHANGED <<budget, backoff, pinged, config, client, now, conn, op, result, calls, sent, torn, run>>


\* ------------------------------------------- the orchestrator, _reconnect
\* the task starts: max_retries, then the first test of the while loop
RStart(r) ==
    /\ pc[r] = "r_start"
    /\ ~cancel_req[r]
    /\ pc' = [pc EXCEPT ![r] = ReconnectLoop(client)]
    /\ UNCHANGED <<budget, backoff, pinged, config, client, now, conn, cancel_req, awaiting, tconn, chans, op,
                   result, calls, sent, torn, run>>

\* the backoff sleep is over: count the attempt, call connect(); when that
\* returns at once (a no-op, or the breaker's denial) go on from there
RWake(r) ==
    /\ pc[r] = "r_sleep"
    /\ ~cancel_req[r]
    /\ LET e == ConnectEntry([client EXCEPT !.reconnect_attempt = @ + 1])
           nx == CASE e.outcome = "opening" ->
                        [pc |-> "connect_open", chans |-> <<>>, tconn |-> 0]
                   [] e.outcome = "noop" -> Resubscribe(e.cl)
                   [] OTHER ->
                        [pc |-> ReconnectLoop(e.cl), chans |-> <<>>, tconn |-> 0]
       IN  /\ client' = e.cl
           /\ pc' = [pc EXCEPT ![r] = nx.pc]
           /\ chans' = [chans EXCEPT ![r] = nx.chans]
           /\ tconn' = [tconn EXCEPT ![r] = nx.tconn]
    /\ run' = [run EXCEPT ![r].attempts = @ + 1]
    /\ UNCHANGED <<budget, backoff, pinged, config, now, conn, cancel_req, awaiting, op, result, calls, sent,
                   torn>>

\* ------------------------------------ the liveness monitor, _heartbeat_loop
\* time_since_pong.total_seconds() > interval * 2.5
PongOverdue(cl) == 2 * (now - cl.last_pong_time) > 5 * Interval

\* the task starts: the first test of the while loop
HStart(h) ==
    /\ pc[h] = "h_start"
    /\ ~cancel_req[h]
    /\ pc' = [pc EXCEPT ![h] =
                 IF client.connection_state = "connected" THEN "h_sleep" ELSE "done"]
    /\ UNCHANGED <<budget, backoff, pinged, config, client, now, conn, cancel_req, awaiting, tconn, chans, op,
                   result, calls, sent, torn, run>>

\* the sleep is over (a tick): leave the loop when not Connected, declare the
\* connection dead and disconnect() when the pong is overdue, else ping
HWake(h) ==
    /\ pc[h] = "h_sleep"
    /\ ~cancel_req[h]
    /\ IF client.connection_state # "connected"
       THEN /\ pc' = [pc EXCEPT ![h] = "done"]
            /\ UNCHANGED <<client, conn, cancel_req, awaiting, tconn, run>>
       ELSE IF PongOverdue(client)
       THEN DisconnectFrom(h, "hb",
                           [client EXCEPT !.connection_state = "disconnected"],
                           cancel_req)
       ELSE /\ IF SendEntry(client) = "send"
               THEN /\ pc' = [pc EXCEPT ![h] = "h_ping"]
                    /\ tconn' = [tconn EXCEPT ![h] = client.websocket[1]]
               ELSE /\ pc' = [pc EXCEPT ![h] = "done"]
                    /\ UNCHANGED tconn
            /\ UNCHANGED <<client, conn, cancel_req, awaiting, run>>
    /\ UNCHANGED <<budget, backoff, pinged, config, now, chans, op, result, calls, sent, torn>>

\* ------------------------------------- the read loop, _message_handler
\* a pong arrives on connection c
MRecvPong(c) ==
    /\ pc[<<"M", c>>] = "reading"
    /\ conn[c] = "open"
    /\ client' = [client EXCEPT !.last_pong_time = now]
    /\ UNCHANGED <<budget, backoff, pinged, config, now, conn, pc, cancel_req, awaiting, tconn, chans, op,
                   result, calls, sent, torn, run>>

\* the stream entry ids the server puts on events
StreamIds == {1, 2}

\* an event of a subscribed channel arrives on connection c with a stream
\* entry id: self.last_stream_ids[channel] = stream_id.  (last_stream_ids
\* is the set of its <<channel, id>> items.)
MRecvEvent(c, channel, id) ==
    /\ pc[<<"M", c>>] = "reading"
    /\ conn[c] = "open"
    /\ channel \in client.subscriptions
    /\ client' = [client EXCEPT !.last_stream_ids =
                      {e \in @ : e[1] # channel} \cup {<<channel, id>>}]
    /\ UNCHANGED <<budget, backoff, pinged, config, now, conn, pc, cancel_req, awaiting, tconn, chans, op,
                   result, calls, sent, torn, run>>

\* the ways `async for message in self.websocket` ends
ReadLoopEnds == {"normal", "ConnectionClosed", "Exception"}

\* a read loop that starts the orchestrator whatever auto_reconnect says
MEnd_ignoring_config(c, how) ==
    LET m == <<"M", c>>
        r == ReconnectOf(m)
        cl == IF how = "ConnectionClosed"
              THEN [client EXCEPT !.connection_state = "disconnected"]
              ELSE client
    IN  /\ pc[m] = "reading"
        /\ conn' = [conn EXCEPT ![c] = "closed"]
        /\ IF how # "normal"
           THEN /\ client' = SpawnReconnect(cl, r)
                /\ pc' = [pc EXCEPT ![m] = "done", ![r] = "r_start"]
                /\ run' = [run EXCEPT ![r] = RunStart(cl)]
           ELSE /\ client' = cl
                /\ pc' = [pc EXCEPT ![m] = "done"]
                /\ UNCHANGED run
        /\ UNCHANGED <<budget, backoff, pinged, config, now, cancel_req, awaiting, tconn, chans, op, result,
                       calls, sent, torn>>

\* the read loop of connection c ends: the iteration just stops (a normal
\* close), or raises ConnectionClosed, or raises another exception
MEnd(c, how) ==
    LET m == <<"M", c>>
        r == ReconnectOf(m)
        cl == IF how = "ConnectionClosed"
              THEN [client EXCEPT !.connection_state = "disconnected"]
              ELSE client
    IN  /\ pc[m] = "reading"
        /\ conn' = [conn EXCEPT ![c] = "closed"]
        /\ IF how # "normal" /\ config.auto_reconnect
           THEN /\ client' = SpawnReconnect(cl, r)
                /\ pc' = [pc EXCEPT ![m] = "done", ![r] = "r_start"]
                /\ run' = [run EXCEPT ![r] = RunStart(cl)]
           ELSE /\ client' = cl
                /\ pc' = [pc EXCEPT ![m] = "done"]
                /\ UNCHANGED run
        /\ UNCHANGED <<budget, backoff, pinged, config, now, cancel_req, awaiting, tconn, chans, op, result,
                       calls, sent, torn>>

\* ----------------------------------------------------------- the clock
TickSteps == {80}

Tick(d) ==
    /\ now + d <= budget.time
    /\ now' = now + d
    /\ UNCHANGED <<budget, backoff, pinged, config, client, conn, pc, cancel_req, awaiting, tconn, chans, op,
                   result, calls, sent, torn, run>>

Next ==
    \/ \E u \in MainCaller : CallConnect(u)
    \/ \E u \in MainCaller : CallDisconnect(u)
    \/ \E u \in MainCaller, channels \in SubscribeInputs : CallSubscribe(u, channels)
    \/ \E u \in MainCaller, channels \in UnsubscribeInputs : CallUnsubscribe(u, channels)
    \/ \E t \in Callers \cup Orchestrators : OpenOk(t)
    \/ \E t \in Callers \cup Orchestrators : OpenFail(t)
    \/ \E t \in Tasks : SendOk(t)
    \/ \E t \in Tasks : SendFail(t)
    \/ \E t \in Callers \cup Monitors : DiscAwaitDone(t)
    \/ \E t \in Callers \cup Monitors : DiscWsDone(t)
    \/ \E t \in Callers \cup Monitors : DiscHttpDone(t)
    \/ \E t \in Monitors \cup Orchestrators : Cancelled(t)
    \/ \E r \in Orchestrators : RStart(r)
    \/ \E r \in Orchestrators : RWake(r)
    \/ \E h \in Monitors : HStart(h)
    \/ \E h \in Monitors : HWake(h)
    \/ \E c \in ConnIds : MRecvPong(c)
    \/ \E c \in ConnIds, how \in ReadLoopEnds : MEnd(c, how)
    \/ \E d \in TickSteps : Tick(d)

Spec == Init /\ [][Next]_vars


\* ------------------------------------------- the circuit breaker on its own
\* A driver calls the three methods of the client's CircuitBreaker in any
\* order while time passes.  op is the method called last and result what
\* it returned ("True" / "False" for can_attempt, "None" otherwise).
InitCB ==
    /\ budget = [calls |-> 0, conns |-> 0, time |-> CBMaxTime]
    /\ config = [auto_reconnect |-> TRUE, heartbeat_interval |-> None,
                 reconnect_attempts |-> None]
    /\ client = ClientInit
    /\ now = 0
    /\ conn = [c \in ConnIds |-> "unused"]
    /\ pc = [t \in Tasks |-> IF t \in Callers THEN "idle" ELSE "none"]
    /\ cancel_req = [t \in Tasks |-> FALSE]
    /\ awaiting = [t \in Tasks |-> NoTask]
    /\ tconn = [t \in Tasks |-> 0]
    /\ chans = [t \in Tasks |-> <<>>]
    /\ op = [u \in Callers |-> "none"]
    /\ result = [u \in Callers |-> "none"]
    /\ calls = [u \in Callers |-> 0]
    /\ sent = [c \in ConnIds |-> <<>>]
    /\ torn = FALSE
    /\ run = [r \in Orchestrators |-> RunInit]
    /\ pinged = [c \in ConnIds |-> FALSE]
    /\ backoff = BackoffInit

CBRecordSuccess(u) ==
    /\ client' = [client EXCEPT !.circuit_breaker = record_success(@)]
    /\ op' = [op EXCEPT ![u] = "record_success"]
    /\ result' = [result EXCEPT ![u] = "None"]
    /\ UNCHANGED <<budget, backoff, pinged, config, now, conn, pc, cancel_req, awaiting, tconn, chans, calls,
                   sent, torn, run>>

CBRecordFailure(u) ==
    /\ client.circuit_breaker.failure_count < CBMaxFailures
    /\ client' = [client EXCEPT !.circuit_breaker = record_failure(@, now)]
    /\ op' = [op EXCEPT ![u] = "record_failure"]
    /\ result' = [result EXCEPT ![u] = "None"]
    /\ UNCHANGED <<budget, backoff, pinged, config, now, conn, pc, cancel_req, awaiting, tconn, chans, calls,
                   sent, torn, run>>

CBCanAttempt(u) ==
    /\ LET ca == can_attempt(client.circuit_breaker, now)
       IN  /\ client' = [client EXCEPT !.circuit_breaker = ca.cb]
           /\ result' = [result EXCEPT ![u] = IF ca.result THEN "True" ELSE "False"]
    /\ op' = [op EXCEPT ![u] = "can_attempt"]
    /\ UNCHANGED <<budget, backoff, pinged, config, now, conn, pc, cancel_req, awaiting, tconn, chans, calls,
                   sent, torn, run>>

CBTickSteps == {1, 60}

NextCB ==
    \/ \E u \in MainCaller : CBRecordSuccess(u)
    \/ \E u \in MainCaller : CBRecordFailure(u)
    \/ \E u \in MainCaller : CBCanAttempt(u)
    \/ \E d \in CBTickSteps : Tick(d)

SpecCB == InitCB /\ [][NextCB]_vars



\* ------------------------------------ subscriptions on one connection
\* The caller connects and then subscribes and unsubscribes lists that
\* reach the channel limit and lists with a channel of another tenant,
\* while sends succeed or fail and the connection may drop.  No monitor, no
\* auto-reconnect.
InitSub ==
    /\ budget = [calls |-> SubMaxCalls, conns |-> 1, time |-> 0]
    /\ config = [auto_reconnect |-> FALSE, heartbeat_interval |-> None,
                 reconnect_attempts |-> None]
    /\ client = ClientInit
    /\ now = 0
    /\ conn = [c \in ConnIds |-> "unused"]
    /\ pc = [t \in Tasks |-> IF t \in Callers THEN "idle" ELSE "none"]
    /\ cancel_req = [t \in Tasks |-> FALSE]
    /\ awaiting = [t \in Tasks |-> NoTask]
    /\ tconn = [t \in Tasks |-> 0]
    /\ chans = [t \in Tasks |-> <<>>]
    /\ op = [u \in Callers |-> "none"]
    /\ result = [u \in Callers |-> "none"]
    /\ calls = [u \in Callers |-> 0]
    /\ sent = [c \in ConnIds |-> <<>>]
    /\ torn = FALSE
    /\ run = [r \in Orchestrators |-> RunInit]
    /\ pinged = [c \in ConnIds |-> FALSE]
    /\ backoff = BackoffInit

\* the lists passed to subscribe: one channel; 101 channels, twice with one
\* channel in common (201 channels together); 201 channels; a valid and a
\* foreign channel; 200 valid channels and a foreign one
SubLimitInputs ==
    { <<Chan(1)>>,
      Block(1, MAX_CHANNELS \div 2 + 1),
      Block(MAX_CHANNELS \div 2 + 1, MAX_CHANNELS + 1),
      Block(1, MAX_CHANNELS + 1),
      <<Chan(2), ForeignChan(1)>>,
      Block(1, MAX_CHANNELS) \o <<ForeignChan(1)>> }

UnsubLimitInputs ==
    { <<Chan(1)>>,
      Block(1, MAX_CHANNELS \div 2 + 1),
      <<Chan(2), ForeignChan(1)>> }

NextSub ==
    \/ \E u \in MainCaller : CallConnect(u)
    \/ \E u \in MainCaller, channels \in SubLimitInputs : CallSubscribe(u, channels)
    \/ \E u \in MainCaller, channels \in UnsubLimitInputs : CallUnsubscribe(u, channels)
    \/ \E u \in MainCaller : OpenOk(u)
    \/ \E u \in MainCaller : OpenFail(u)
    \/ \E u \in MainCaller : SendOk(u)
    \/ \E u \in MainCaller : SendFail(u)
    \/ \E c \in ConnIds, how \in ReadLoopEnds : MEnd(c, how)

SpecSub == InitSub /\ [][NextSub]_vars


\* ---------------------------------- events, then a reconnection
\* The session subscribes, receives events that carry stream entry ids,
\* loses the connection and is reconnected by the orchestrator.
InitReplay ==
    /\ budget = [calls |-> MaxCalls - 1, conns |-> MaxConns, time |-> 0]
    /\ config = [auto_reconnect |-> TRUE, heartbeat_interval |-> None,
                 reconnect_attempts |-> <<MaxAttemptsCfg>>]
    /\ client = ClientInit
    /\ now = 0
    /\ conn = [c \in ConnIds |-> "unused"]
    /\ pc = [t \in Tasks |-> IF t \in Callers THEN "idle" ELSE "none"]
    /\ cancel_req = [t \in Tasks |-> FALSE]
    /\ awaiting = [t \in Tasks |-> NoTask]
    /\ tconn = [t \in Tasks |-> 0]
    /\ chans = [t \in Tasks |-> <<>>]
    /\ op = [u \in Callers |-> "none"]
    /\ result = [u \in Callers |-> "none"]
    /\ calls = [u \in Callers |-> 0]
    /\ sent = [c \in ConnIds |-> <<>>]
    /\ torn = FALSE
    /\ run = [r \in Orchestrators |-> RunInit]
    /\ pinged = [c \in ConnIds |-> FALSE]
    /\ backoff = BackoffInit

ReplayInputs == { <<Chan(1)>>, <<Chan(1), Chan(2)>> }

NextReplay ==
    \/ \E u \in MainCaller : CallConnect(u)
    \/ \E u \in MainCaller, channels \in ReplayInputs : CallSubscribe(u, channels)
    \/ \E t \in Callers \cup Orchestrators : OpenOk(t)
    \/ \E t \in Callers \cup Orchestrators : OpenFail(t)
    \/ \E t \in Callers \cup Orchestrators : SendOk(t)
    \/ \E t \in Callers \cup Orchestrators : SendFail(t)
    \/ \E r \in Orchestrators : RStart(r)
    \/ \E r \in Orchestrators : RWake(r)
    \/ \E c \in ConnIds, channel \in {Chan(1), Chan(2)}, id \in StreamIds :
          MRecvEvent(c, channel, id)
    \/ \E c \in ConnIds, how \in ReadLoopEnds : MEnd(c, how)

SpecReplay == InitReplay /\ [][NextReplay]_vars


\* --------------------------------------------------- the backoff delay
\* _reconnect computes the delay it sleeps before an attempt from
\* self.reconnect_attempt and from the fraction of a second at which the
\* event loop's clock stands.  Times are exact here: the fraction in
\* milliseconds, the jitter factor in 1/10000, the delay in 1/10000 ms.
Min(a, b) == IF a < b THEN a ELSE b

\* self.BACKOFF_BASE_MS * (self.BACKOFF_FACTOR ** self.reconnect_attempt)
BaseDelay(n) == BACKOFF_BASE_MS * BACKOFF_FACTOR ^ n

\* min(base_delay, self.BACKOFF_MAX_MS), in ms
CappedDelay(n) == Min(BaseDelay(n), BACKOFF_MAX_MS)

\* a jitter taken from the whole second instead of its distance to the half
Jitter_uncentred(ms) == 10000 + 2 * BACKOFF_JITTER_TENTHS * (1000 - ms)

\* 1 + (2 * self.BACKOFF_JITTER * (0.5 - loop.time() % 1)), in 1/10000
Jitter(ms) == 10000 + 2 * BACKOFF_JITTER_TENTHS * (500 - ms)

\* delay *= jitter, in 1/10000 ms
JitteredDelay(n, ms) == CappedDelay(n) * Jitter(ms)

\* where the event loop's clock may stand within its second
LoopFractions == {0, 1, 250, 499, 500, 501, 750, 998, 999}

InitBackoff ==
    /\ budget = [calls |-> 0, conns |-> 0, time |-> 0]
    /\ config = [auto_reconnect |-> TRUE, heartbeat_interval |-> None,
                 reconnect_attempts |-> <<MaxBackoffAttempt + 1>>]
    /\ \E n \in 0..MaxBackoffAttempt : client = [ClientInit EXCEPT !.reconnect_attempt = n]
    /\ \E ms \in LoopFractions : backoff = [BackoffInit EXCEPT !.loop_ms = ms]
    /\ now = 0
    /\ conn = [c \in ConnIds |-> "unused"]
    /\ pc = [t \in Tasks |-> IF t \in Callers THEN "idle" ELSE "none"]
    /\ cancel_req = [t \in Tasks |-> FALSE]
    /\ awaiting = [t \in Tasks |-> NoTask]
    /\ tconn = [t \in Tasks |-> 0]
    /\ chans = [t \in Tasks |-> <<>>]
    /\ op = [u \in Callers |-> "none"]
    /\ result = [u \in Callers |-> "none"]
    /\ calls = [u \in Callers |-> 0]
    /\ sent = [c \in ConnIds |-> <<>>]
    /\ torn = FALSE
    /\ run = [r \in Orchestrators |-> RunInit]
    /\ pinged = [c \in ConnIds |-> FALSE]

\* the loop of _reconnect computes the delay of the attempt to come
ComputeDelay ==
    /\ client.reconnect_attempt < MaxRetries
    /\ backoff' = [backoff EXCEPT !.computed = TRUE,
                                  !.attempt = client.reconnect_attempt,
                                  !.delay = JitteredDelay(client.reconnect_attempt,
                                                          backoff.loop_ms)]
    /\ UNCHANGED <<budget, pinged, config, client, now, conn, pc, cancel_req, awaiting, tconn,
                   chans, op, result, calls, sent, torn, run>>

\* self.reconnect_attempt += 1, after the sleep
CountAttempt ==
    /\ backoff.computed
    /\ client.reconnect_attempt < MaxBackoffAttempt
    /\ client' = [client EXCEPT !.reconnect_attempt = @ + 1]
    /\ backoff' = [backoff EXCEPT !.computed = FALSE]
    /\ UNCHANGED <<budget, pinged, config, now, conn, pc, cancel_req, awaiting, tconn, chans, op,
                   result, calls, sent, torn, run>>

\* the event loop's clock moves on
LoopClock(ms) ==
    /\ backoff' = [backoff EXCEPT !.loop_ms = ms]
    /\ UNCHANGED <<budget, pinged, config, client, now, conn, pc, cancel_req, awaiting, tconn,
                   chans, op, result, calls, sent, torn, run>>

NextBackoff ==
    \/ ComputeDelay
    \/ CountAttempt
    \/ \E ms \in LoopFractions : LoopClock(ms)

SpecBackoff == InitBackoff /\ [][NextBackoff]_vars


\* ------------------------------------ connections made after some time
\* The session is connected some time after its construction and again
\* after some downtime.  The clock moves only while the session is
\* Disconnected: within a connection every sleep of the monitor and every pong
\* are as quick as they can be, so the clock the monitor reads at its test
\* is never later here than in the program.
InitLive ==
    /\ budget = [calls |-> 1, conns |-> MaxConns, time |-> MaxTime]
    /\ \E auto \in BOOLEAN :
         config = [auto_reconnect |-> auto, heartbeat_interval |-> <<HEARTBEAT_INTERVAL>>,
                   reconnect_attempts |-> <<MaxAttemptsCfg>>]
    /\ client = ClientInit
    /\ now = 0
    /\ conn = [c \in ConnIds |-> "unused"]
    /\ pc = [t \in Tasks |-> IF t \in Callers THEN "idle" ELSE "none"]
    /\ cancel_req = [t \in Tasks |-> FALSE]
    /\ awaiting = [t \in Tasks |-> NoTask]
    /\ tconn = [t \in Tasks |-> 0]
    /\ chans = [t \in Tasks |-> <<>>]
    /\ op = [u \in Callers |-> "none"]
    /\ result = [u \in Callers |-> "none"]
    /\ calls = [u \in Callers |-> 0]
    /\ sent = [c \in ConnIds |-> <<>>]
    /\ torn = FALSE
    /\ run = [r \in Orchestrators |-> RunInit]
    /\ pinged = [c \in ConnIds |-> FALSE]
    /\ backoff = BackoffInit

\* time passes while the session is Disconnected
IdleTick(d) ==
    /\ client.connection_state = "disconnected"
    /\ Tick(d)

NextLive ==
    \/ \E u \in MainCaller : CallConnect(u)
    \/ \E u \in MainCaller : CallDisconnect(u)
    \/ \E t \in Callers \cup Orchestrators : OpenOk(t)
    \/ \E t \in Callers \cup Orchestrators : OpenFail(t)
    \/ \E t \in Monitors : SendOk(t)
    \/ \E t \in Monitors : SendFail(t)
    \/ \E t \in Callers \cup Monitors : DiscAwaitDone(t)
    \/ \E t \in Callers \cup Monitors : DiscWsDone(t)
    \/ \E t \in Callers \cup Monitors : DiscHttpDone(t)
    \/ \E t \in Monitors \cup Orchestrators : Cancelled(t)
    \/ \E r \in Orchestrators : RStart(r)
    \/ \E r \in Orchestrators : RWake(r)
    \/ \E h \in Monitors : HStart(h)
    \/ \E h \in Monitors : HWake(h)
    \/ \E c \in ConnIds : MRecvPong(c)
    \/ \E c \in ConnIds, how \in ReadLoopEnds : MEnd(c, how)
    \/ \E d \in TickSteps : IdleTick(d)

SpecLive == InitLive /\ [][NextLive]_vars


\* ------------------------------------------ two callers subscribing
\* Two coroutines of the application use the connected session at once
\* (asyncio.gather of two subscribe() calls): each may stand at the await
\* of its send while the other runs.  budget.calls is what each may call.
InitRace ==
    /\ budget = [calls |-> RaceMaxCalls, conns |-> 1, time |-> 0]
    /\ config = [auto_reconnect |-> FALSE, heartbeat_interval |-> None,
                 reconnect_attempts |-> None]
    /\ client = ClientInit
    /\ now = 0
    /\ conn = [c \in ConnIds |-> "unused"]
    /\ pc = [t \in Tasks |-> IF t \in Callers THEN "idle" ELSE "none"]
    /\ cancel_req = [t \in Tasks |-> FALSE]
    /\ awaiting = [t \in Tasks |-> NoTask]
    /\ tconn = [t \in Tasks |-> 0]
    /\ chans = [t \in Tasks |-> <<>>]
    /\ op = [u \in Callers |-> "none"]
    /\ result = [u \in Callers |-> "none"]
    /\ calls = [u \in Callers |-> 0]
    /\ sent = [c \in ConnIds |-> <<>>]
    /\ torn = FALSE
    /\ run = [r \in Orchestrators |-> RunInit]
    /\ pinged = [c \in ConnIds |-> FALSE]
    /\ backoff = BackoffInit

\* two lists of more than half the limit each, one channel in common
RaceInputs ==
    { <<Chan(1)>>,
      Block(1, MAX_CHANNELS \div 2 + 1),
      Block(MAX_CHANNELS \div 2 + 1, MAX_CHANNELS + 1) }

NextRace ==
    \/ \E u \in MainCaller : CallConnect(u)
    \/ \E u \in Callers, channels \in RaceInputs : CallSubscribe(u, channels)
    \/ \E u \in Callers : OpenOk(u)
    \/ \E u \in Callers : OpenFail(u)
    \/ \E u \in Callers : SendOk(u)
    \/ \E u \in Callers : SendFail(u)

SpecRace == InitRace /\ [][NextRace]_vars

\* =================================================================== claims
DiscPcs == {"disc_hb", "disc_rc", "disc_ws", "disc_http"}

\* a task that was created and has not ended
Running(t) == pc[t] # "none" /\ ~Terminal(pc[t])

\* the orchestrators that run and that nobody has cancelled
RunningOrchestrators == {r \in Orchestrators : Running(r) /\ ~cancel_req[r]}

\* this step, orchestrator r ends by itself (it is not cancelled)
RunEnds(r) == Running(r) /\ pc'[r] \in {"done", "exhausted"}

\* this step, the caller's disconnect() returns
DisconnectReturns(u) ==
    /\ op'[u] = "disconnect"
    /\ pc'[u] = "idle"
    /\ calls'[u] # calls[u] \/ pc[u] \in DiscPcs

\* C1: at every moment at most one Reconnection Orchestrator is running,
\* whichever of the read loop and the liveness monitor detect the loss of
\* the connection and in whatever order.
C1_AtMostOneOrchestrator == Cardinality(RunningOrchestrators) <= 1

\* Since orchestrator r reconnected nothing else happened to the session:
\* the caller made no call, the new connection is up, nobody disconnects.
Quiet(r) ==
    /\ calls[<<"U", 1>>] = run[r].calls0
    /\ pc[<<"M", run[r].opened>>] = "reading"
    /\ \A t \in Callers \cup Monitors : pc[t] \notin DiscPcs
    /\ RunningOrchestrators \subseteq {r}

\* the subscribe requests sent on connection c are one request for exactly
\* the channels S (none is needed for no channels)
OneSubscribeFor(c, S) ==
    IF S = {}
    THEN sent[c] = <<>>
    ELSE /\ Len(sent[c]) = 1
         /\ sent[c][1].type = "subscribe"
         /\ Len(sent[c][1].channels) = Cardinality(S)
         /\ SetOf(sent[c][1].channels) = S

\* C2: when the connection is lost with SubscriptionSet S of any size up to
\* the channel limit and the transport fails the first k attempts of the
\* orchestrator and then succeeds, the orchestrator reconnects on attempt
\* k + 1, sends one subscribe request for exactly S, then stops; the session
\* ends Connected with SubscriptionSet S.
C2_ReconnectResubscribes ==
    [][ \A r \in Orchestrators :
          ( /\ RunEnds(r)
            /\ run'[r].opened # 0
            /\ run'[r].reconnect_on = run'[r].open_failures + 1
            /\ Quiet(r)' )
          => /\ pc'[r] = "done"
             /\ run'[r].attempts = run'[r].reconnect_on
             /\ client'.connection_state = "connected"
             /\ client'.subscriptions = run'[r].subs0
             /\ OneSubscribeFor(run[r].opened, run[r].subs0)' ]_vars

\* all connect() calls the orchestrators made so far
AllAttempts == [r \in Orchestrators |-> run[r].attempts]

\* C3: with a transport whose open always fails, one orchestrator run makes
\* exactly max_attempts connect attempts and then terminates; afterwards the
\* session is Disconnected and no further connection attempt is made
\* without a new request of the caller.
C3_Exhaustion ==
    [][ \A r \in Orchestrators :
          /\ ( /\ RunEnds(r)
               /\ NumOpened' = run[r].conns0
               /\ calls'[<<"U", 1>>] = run[r].calls0 )
             => /\ pc'[r] = "exhausted"
                /\ run'[r].attempts = MaxRetries
                /\ client'.connection_state = "disconnected"
          /\ ( /\ pc[r] = "exhausted"
               /\ NumOpened = run[r].conns0
               /\ calls'[<<"U", 1>>] = run[r].calls0 )
             => AllAttempts' = AllAttempts ]_vars

\* C4: when the liveness monitor finds the pong overdue (more than 2.5
\* heartbeat intervals) the session becomes Disconnected, the monitor never
\* goes back to its loop and terminates, and when it has terminated exactly
\* one orchestrator is running if auto-reconnect is on, none if it is off.
C4_LivenessDeath ==
    [][ \A h \in Monitors :
          /\ ( /\ pc[h] = "h_sleep"
               /\ pc'[h] # "h_sleep"
               /\ ~cancel_req[h]
               /\ client.connection_state = "connected"
               /\ PongOverdue(client) )
             => /\ client'.connection_state = "disconnected"
                /\ pc'[h] \in DiscPcs \cup {"done"}
          /\ pc[h] \in DiscPcs => pc'[h] \in DiscPcs \cup {"done", "cancelled"}
          /\ (pc[h] \in DiscPcs /\ pc'[h] = "done")
             => Cardinality(RunningOrchestrators') =
                   IF config.auto_reconnect THEN 1 ELSE 0 ]_vars

\* C5: disconnect() is idempotent: from any state of the session, each of two
\* calls in succession (so every call) returns without an error and with the
\* session Disconnected.
C5_DisconnectIdempotent ==
    [][ \A u \in Callers :
          DisconnectReturns(u)
          => /\ result'[u] = "ok"
             /\ client'.connection_state = "disconnected" ]_vars

\* C6: when a disconnect() of the caller returns, the session is
\* Disconnected and neither a liveness monitor nor an orchestrator is
\* running, whatever the tasks did while the call was in progress.
C6_DisconnectLeavesNothingRunning ==
    [][ \A u \in Callers :
          DisconnectReturns(u)
          => /\ client'.connection_state = "disconnected"
             /\ \A t \in Monitors \cup Orchestrators : ~Running(t)' ]_vars

\* C7: once a disconnect() of the caller has returned, the session stays
\* Disconnected and opens no transport connection until the caller calls
\* connect().
C7_StaysDisconnected ==
    torn => /\ client.connection_state = "disconnected"
            /\ \A t \in Tasks : pc[t] # "connect_open"

\* the breaker after n more failures recorded at time t
RECURSIVE Failures(_, _, _)
Failures(cb, n, t) ==
    IF n = 0 THEN cb ELSE Failures(record_failure(cb, t), n - 1, t)

\* From Closed with no failure: fewer than failure_threshold failures in a
\* row leave the breaker letting attempts through; failure_threshold of them
\* make can_attempt() return False up to timeout_seconds after the last one;
\* the first can_attempt() later than that returns True and leaves
\* HalfOpen, and a record_success() then leaves Closed without a failure.
BreakerCycleFromHere ==
    LET cb0 == client.circuit_breaker
        tripped == Failures(cb0, FAILURE_THRESHOLD, now)
    IN  (cb0.state = "closed" /\ cb0.failure_count = 0)
        => /\ \A n \in 0..(FAILURE_THRESHOLD - 1) :
                 can_attempt(Failures(cb0, n, now), now).result
           /\ \A t \in now..(now + TIMEOUT_SECONDS + 1) :
                 LET ca == can_attempt(tripped, t)
                 IN  IF t - now <= TIMEOUT_SECONDS
                     THEN ~ca.result /\ ca.cb = tripped
                     ELSE /\ ca.result
                          /\ ca.cb.state = "half_open"
                          /\ record_success(ca.cb).state = "closed"
                          /\ record_success(ca.cb).failure_count = 0

\* the same, call by call, on the breaker the driver works on
BreakerCycleStep ==
    LET u == <<"U", 1>>
        cb == client.circuit_breaker
        after == client'.circuit_breaker
        called(name) == now' = now /\ op'[u] = name
    IN  /\ (called("record_failure") /\ cb.state = "closed")
           => (after.state = "open") = (cb.failure_count + 1 = FAILURE_THRESHOLD)
        /\ (called("can_attempt") /\ cb.state = "closed")
           => result'[u] = "True" /\ after = cb
        /\ (called("can_attempt") /\ cb.state = "open")
           => IF now - cb.last_failure_time[1] <= TIMEOUT_SECONDS
              THEN result'[u] = "False" /\ after = cb
              ELSE result'[u] = "True" /\ after.state = "half_open"
        /\ (called("record_success") /\ cb.state = "half_open")
           => after.state = "closed" /\ after.failure_count = 0

\* C8: the circuit breaker, from Closed with failure_count 0: after exactly
\* failure_threshold consecutive record_failure() calls can_attempt()
\* returns False, and keeps doing so while now - last_failure_time <=
\* timeout_seconds; the first can_attempt() with now - last_failure_time >
\* timeout_seconds returns True and leaves the breaker HalfOpen; a
\* record_success() then leaves it Closed with failure_count 0.
C8_BreakerCycle == [][BreakerCycleStep]_vars /\ []BreakerCycleFromHere

\* C8 happens: the breaker tripped on its failure_threshold-th failure and
\* the first can_attempt() past the cool-down let the attempt through.
C8_Witness ==
    /\ client.circuit_breaker.state = "half_open"
    /\ client.circuit_breaker.failure_count = FAILURE_THRESHOLD
    /\ now - client.circuit_breaker.last_failure_time[1] = TIMEOUT_SECONDS + 1
    /\ op[<<"U", 1>>] = "can_attempt"
    /\ result[<<"U", 1>>] = "True"

\* C9: a connect() that the circuit breaker denies fails with the circuit
\* breaker's own error (AxonPulsCircuitBreakerError), not with a connection
\* error.
C9_DeniedRaisesCircuitError ==
    [][ \A u \in Callers :
          ( /\ calls'[u] # calls[u]
            /\ op'[u] = "connect"
            /\ client.connection_state \notin {"connected", "connecting"}
            /\ ~can_attempt(client.circuit_breaker, now).result )
          => result'[u] = "AxonPulsCircuitBreakerError" ]_vars

\* C10: whenever a connect() succeeds the session is Connected, the
\* breaker's failure_count and the reconnect attempt counter are 0, and a
\* liveness monitor runs for the new connection, with the default
\* heartbeat interval when none is configured.
C10_ConnectSuccess ==
    [][ \A c \in ConnIds :
          (conn[c] = "unused" /\ conn'[c] = "open")
          => /\ client'.connection_state = "connected"
             /\ client'.circuit_breaker.failure_count = 0
             /\ client'.reconnect_attempt = 0
             /\ Running(<<"H", c>>)' ]_vars


\* this step, caller u calls subscribe(channels)
SubscribeCalled(u, channels) == CallSubscribe(u, channels)

\* this step, the call subscribe(channels) of u is refused with `error`:
\* nothing is sent and the SubscriptionSet stays as it is
Refused(u, error) ==
    /\ result'[u] = error
    /\ pc'[u] = "idle"
    /\ sent' = sent
    /\ client'.subscriptions = client.subscriptions

\* C11: a subscribe(channels) made while Connected that would make the
\* SubscriptionSet hold more than MAX_CHANNELS channels fails with
\* ValidationError, sends no request and leaves the SubscriptionSet as it is.
C11_LimitEnforced ==
    [][ \A u \in Callers, channels \in SubLimitInputs :
          ( /\ SubscribeCalled(u, channels)
            /\ client.connection_state = "connected"
            /\ Cardinality(client.subscriptions \cup SetOf(channels)) > MAX_CHANNELS )
          => Refused(u, "AxonPulsValidationError") ]_vars

\* C11 happens: Connected with nothing subscribed, a subscribe of more than
\* MAX_CHANNELS channels was refused with ValidationError.
C11_Witness ==
    /\ op[<<"U", 1>>] = "subscribe"
    /\ result[<<"U", 1>>] = "AxonPulsValidationError"
    /\ client.connection_state = "connected"
    /\ client.subscriptions = {}
    /\ sent[1] = <<>>

\* every channel of the SubscriptionSet carries the tenant's prefix
TenantIsolation == \A channel \in client.subscriptions : HasTenantPrefix(channel)

\* C12 as stated: every channel of the SubscriptionSet carries the tenant's
\* prefix, and any subscribe(channels) on a Connected session with a channel
\* that lacks the prefix fails with TenantIsolationError, sends nothing and
\* adds no channel.
C12_ForeignAlwaysTenantError ==
    [][ /\ TenantIsolation'
        /\ \A u \in Callers, channels \in SubLimitInputs :
             ( /\ SubscribeCalled(u, channels)
               /\ client.connection_state = "connected"
               /\ ~AllValid(channels) )
             => Refused(u, "AxonPulsTenantIsolationError") ]_vars

\* C12 amended: every channel of the SubscriptionSet carries the tenant's
\* prefix, and a subscribe(channels) made while Connected and within the
\* channel limit (len(channels) + size of the SubscriptionSet <=
\* MAX_CHANNELS) with a channel that lacks the prefix fails with
\* TenantIsolationError, sends nothing and adds no channel; a call refused
\* before that fails with the error of the earlier test and adds nothing
\* either.
C12_TenantIsolation ==
    [][ /\ TenantIsolation'
        /\ \A u \in Callers, channels \in SubLimitInputs :
             (SubscribeCalled(u, channels) /\ ~AllValid(channels))
             => IF client.connection_state # "connected"
                THEN Refused(u, "AxonPulsConnectionError")
                ELSE IF Len(channels) + Cardinality(client.subscriptions) > MAX_CHANNELS
                THEN Refused(u, "AxonPulsValidationError")
                ELSE Refused(u, "AxonPulsTenantIsolationError") ]_vars

\* C12 happens: with a channel subscribed, a subscribe was refused with
\* TenantIsolationError and the SubscriptionSet is still that one channel.
C12_Witness ==
    /\ op[<<"U", 1>>] = "subscribe"
    /\ result[<<"U", 1>>] = "AxonPulsTenantIsolationError"
    /\ client.subscriptions = {Chan(1)}
    /\ Len(sent[1]) = 1

\* this step, a subscribe or unsubscribe request of task t was sent and the
\* SubscriptionSet took up, or lost, the channels of the request
SentAndApplied(t) ==
    /\ pc[t] \in {"sub_send", "unsub_send"}
    /\ pc'[t] # pc[t]
    /\ sent'[tconn[t]] =
          Append(sent[tconn[t]],
                 [type |-> IF pc[t] = "sub_send" THEN "subscribe" ELSE "unsubscribe",
                  channels |-> chans[t],
                  replay_from |-> {}])
    /\ client'.subscriptions =
          IF pc[t] = "sub_send"
          THEN client.subscriptions \cup SetOf(chans[t])
          ELSE client.subscriptions \ SetOf(chans[t])

\* this step, a call of u ends with an error
CallFails(u) ==
    /\ calls'[u] # calls[u] \/ pc[u] # "idle"
    /\ pc'[u] = "idle"
    /\ result'[u] \notin {"ok", "pending", "none"}

\* C13: the SubscriptionSet changes only in the step in which a subscribe or
\* unsubscribe request has been sent, and then by exactly the channels of
\* that request; a call whose send fails, or that is refused because the
\* session is not Connected, leaves the SubscriptionSet as it was.
C13_ChangeOnlyAfterSend ==
    [][ /\ client'.subscriptions # client.subscriptions
           => \E t \in Tasks : SentAndApplied(t)
        /\ \A t \in Tasks :
             (pc[t] \in {"sub_send", "unsub_send"} /\ sent' # sent) => SentAndApplied(t)
        /\ \A u \in Callers :
             CallFails(u) => client'.subscriptions = client.subscriptions ]_vars

\* C13 happens: with 101 channels subscribed and the session Connected, the
\* send of a further subscribe or unsubscribe failed (the breaker counted
\* it) and the SubscriptionSet is still those 101 channels.
C13_Witness ==
    /\ op[<<"U", 1>>] \in {"subscribe", "unsubscribe"}
    /\ result[<<"U", 1>>] = "AxonPulsConnectionError"
    /\ client.connection_state = "connected"
    /\ client.circuit_breaker.failure_count = 1
    /\ Cardinality(client.subscriptions) = MAX_CHANNELS \div 2 + 1
    /\ Len(sent[1]) = 1


\* C14: when an orchestrator run exhausts max_attempts without a successful
\* connect, the session surfaces a reconnection-exhausted signal to the
\* caller (an emitted signal, or a ReconnectionExhaustedError); the
\* orchestrator never just stops.
C14_ExhaustionSurfaced ==
    [][ \A r \in Orchestrators :
          (RunEnds(r) /\ pc'[r] = "exhausted")
          => \/ "reconnection_exhausted" \in ExhaustedSignals
             \/ \E u \in Callers : /\ result'[u] # result[u]
                                   /\ result'[u] = "ReconnectionExhaustedError" ]_vars

\* C15: whenever the read loop of the current connection of a Connected
\* session ends (normally, with ConnectionClosed or with another exception)
\* the session becomes Disconnected and, if auto-reconnect is configured, an
\* orchestrator is started.
C15_ReadLoopEndDisconnects ==
    [][ \A c \in ConnIds :
          ( /\ pc[<<"M", c>>] = "reading"
            /\ pc'[<<"M", c>>] = "done"
            /\ client.connection_state = "connected"
            /\ client.websocket = <<c>> )
          => /\ client'.connection_state = "disconnected"
             /\ config.auto_reconnect => pc'[<<"RM", c>>] = "r_start" ]_vars

\* C16: with auto-reconnect disabled no orchestrator is ever started,
\* whether a read loop ends or a monitor declares the connection dead, and
\* only the caller's connect() opens the transport.
C16_NoOrchestratorWithoutAutoReconnect ==
    ~config.auto_reconnect
    => /\ \A r \in Orchestrators : pc[r] = "none" /\ run[r] = RunInit
       /\ client.reconnect_task = NoTask
       /\ \A t \in Tasks \ Callers : pc[t] # "connect_open"

\* C16 happens: auto-reconnect is off, the monitor declared the connection
\* dead and tore the session down (the caller never called disconnect()),
\* the read loop has ended as well, and the clock has run to its end.
C16_Witness ==
    /\ ~config.auto_reconnect
    /\ calls[<<"U", 1>>] = 1
    /\ pc[<<"H", 1>>] = "done"
    /\ pc[<<"M", 1>>] = "done"
    /\ conn[1] = "closed"
    /\ client.websocket = None
    /\ ~client.http_session


\* C17: when the orchestrator re-subscribes after a reconnection, the
\* request it sends on the new connection asks for replay from the recorded
\* position (last_stream_ids) of every channel of the request that has one.
C17_ResubscribeCarriesPositions ==
    [][ \A r \in Orchestrators :
          (pc[r] = "sub_send" /\ pc'[r] = "done")
          => LET c == tconn[r]
                 request == sent'[c][Len(sent'[c])]
             IN  /\ request.type = "subscribe"
                 /\ \A e \in client.last_stream_ids :
                      e[1] \in SetOf(request.channels) => e \in request.replay_from ]_vars


\* C18: for every attempt number n >= 0 the unjittered delay
\* min(250 ms * 2^n, 30000 ms) is non-decreasing in n and never above
\* 30000 ms, and is 250 ms for n = 0; the jittered delay awaited before an
\* attempt is strictly positive and never above 30000 ms * (1 + 0.2), and
\* lies within 0.2 of the unjittered delay.
C18_BackoffDelay ==
    /\ CappedDelay(0) = BACKOFF_BASE_MS
    /\ \A n \in 0..MaxBackoffAttempt :
         /\ CappedDelay(n) <= BACKOFF_MAX_MS
         /\ CappedDelay(n) <= CappedDelay(n + 1)
    /\ backoff.computed
       => /\ backoff.delay > 0
          /\ backoff.delay <= BACKOFF_MAX_MS * (10000 + 1000 * BACKOFF_JITTER_TENTHS)
          /\ backoff.delay >=
                CappedDelay(backoff.attempt) * (10000 - 1000 * BACKOFF_JITTER_TENTHS)
          /\ backoff.delay <=
                CappedDelay(backoff.attempt) * (10000 + 1000 * BACKOFF_JITTER_TENTHS)

\* C18 happens: a delay was computed for an attempt whose base is over the
\* cap, with the clock at a full second: 30000 ms * 1.2.
C18_Witness ==
    /\ backoff.computed
    /\ BaseDelay(backoff.attempt) > BACKOFF_MAX_MS
    /\ backoff.loop_ms = 0
    /\ backoff.delay = BACKOFF_MAX_MS * 12000

\* C19: in every state the reconnect attempt counter is at least 0 and at
\* most the configured maximum of attempts, under every interleaving of
\* connection losses and orchestrator steps.
C19_AttemptCounterBounded ==
    /\ client.reconnect_attempt >= 0
    /\ client.reconnect_attempt <= MaxRetries

\* the liveness monitors that run and that nobody has cancelled
RunningMonitors == {h \in Monitors : Running(h) /\ ~cancel_req[h]}

\* C20: in every state at most one liveness monitor is alive in the
\* session, and a monitor started for one connection is not alive while
\* the session is Connected over a later connection.
C20_AtMostOneMonitor ==
    /\ Cardinality(RunningMonitors) <= 1
    /\ \A c \in ConnIds :
         (<<"H", c>> \in RunningMonitors /\ client.connection_state = "connected")
         => client.websocket = <<c>>

\* this step, monitor h finds the pong overdue and disconnects the session
DeclaresDead(h) ==
    /\ pc[h] = "h_sleep"
    /\ pc'[h] # "h_sleep"
    /\ ~cancel_req[h]
    /\ client.connection_state = "connected"
    /\ PongOverdue(client)

\* C21: a healthy connection is never declared dead: the liveness monitor
\* disconnects the session only if, since the current connection was
\* established, a ping went out on it (one that no pong answered in time),
\* however long after the construction of the session the connection was
\* made.
C21_HealthyNeverDeclaredDead ==
    [][ \A h \in Monitors :
          DeclaresDead(h) => pinged[client.websocket[1]] ]_vars

\* C22: whenever the session is Connected and a positive heartbeat
\* interval is configured, a liveness monitor is alive; a failed send of a
\* ping does not leave the session Connected with no monitor.
C22_ConnectedIsMonitored ==
    (client.connection_state = "connected" /\ HeartbeatEnabled)
    => \E h \in Monitors : Running(h)

\* C23: in every state the SubscriptionSet holds at most MAX_CHANNELS
\* channels, also when several subscribe() calls are in flight at once.
C23_SetWithinLimit == Cardinality(client.subscriptions) <= MAX_CHANNELS

\* C24: whatever calls of record_success(), record_failure() and
\* can_attempt() came before and whatever time passed between them, a
\* record_failure() made while the breaker is HalfOpen leaves it Open, and
\* can_attempt() is False right after it.
C24_FailedProbeReopens ==
    [][ LET u == <<"U", 1>>
            cb == client.circuit_breaker
            after == client'.circuit_breaker
        IN  (now' = now /\ op'[u] = "record_failure" /\ cb.state = "half_open")
            => /\ after.state = "open"
               /\ ~can_attempt(after, now).result ]_vars

====
